---- MODULE Spec2Model ----
(***************************************************************************)
(* CeleryTracing (celery_opentracing/tracing.py): the span lifecycle       *)
(* driven by Celery's task signals.                                        *)
(*                                                                         *)
(* The six signal handlers are state transformers over the tracer state    *)
(* (spans, the thread's active scope) and the per-task side table          *)
(* `_ct_spans`.  A signal is dispatched synchronously to every connected   *)
(* receiver, in connection order, as one step.                             *)
(***************************************************************************)
EXTENDS Naturals, Sequences, FiniteSets, TLC

VARIABLES
    propagate,   \* self._propagate of each CeleryTracing instance
    receivers,   \* receivers[sig]: the instances whose handler is connected to
                 \* the signal, in connection order
    spans,       \* every span the tracer has started, in start order
    active,      \* the scope manager's active scope (index into spans), 0: none
    has_ct,      \* task objects that have the `_ct_spans` attribute
    ct_spans,    \* ct_spans[t][key]: span stored under key of t._ct_spans, 0: no entry
    wire,        \* propagation payloads written into published message headers
    last,        \* the last dispatched signal, with what each receiver did
    tag_meta,    \* tag extraction: the mapping handed to _set_span_tags
    tag_span     \* tag extraction: the tags of the span it was applied to

vars == <<propagate, receivers, spans, active, has_ct, ct_spans, wire, last,
          tag_meta, tag_span>>

(***************************************************************************)
(* Bounds of the model.                                                    *)
(***************************************************************************)
MaxSpans == 2
MaxLogs == 1

(***************************************************************************)
(* Python values.  Scalars are written as strings; None, 0, True and the   *)
(* two "pair of nulls" values are the tokens below.                        *)
(***************************************************************************)
None == "<None>"
PyTrue == "True"
PyZero == "0"
PairOfNones == "(None, None)"
ListOfNones == "[None, None]"

\* str(v) / text_type(v) / '{}'.format(v)
Str(v) == IF v = None THEN "None" ELSE v

\* bool(v) of a scalar: None and the empty string are falsy
Truthy(v) == v # None /\ v # ""


(***************************************************************************)
(* Applications, task objects and registries.  Both applications register  *)
(* a task under the name "add"; "plain" is an object without an `app`      *)
(* attribute and NoTask is None.                                           *)
(***************************************************************************)
Instances == {"A", "B"}
Tasks == {"addA", "addB"}
NoTask == "<NoTask>"
\* the senders of the run-side signals
Senders == {"addA", "plain", NoTask}

HasAppAttr(t) == t \in Tasks
AppOf(t) == IF t = "addA" THEN "A" ELSE "B"
NameOf(t) == "add"

\* self.tasks.get(name)
TasksGet(self, name) ==
    IF name = "add" THEN (IF self = "A" THEN "addA" ELSE "addB") ELSE NoTask

TaskIds == {"a", "publish:a"}

(***************************************************************************)
(* The tracer (opentracing API, thread-local scope manager).               *)
(***************************************************************************)
NoContext == <<0, 0>>          \* no parent
NoTags == [k \in {} |-> ""]

SetTag(tags, k, v) == [x \in (DOMAIN tags) \cup {k} |-> IF x = k THEN v ELSE tags[x]]

\* the ids the tracer gives the n-th span it starts, and the trace a root opens
NewSpanId(n) == 254 + n
NewTraceId(n) == 4000 + n

HexDigits == <<"0", "1", "2", "3", "4", "5", "6", "7", "8", "9",
               "a", "b", "c", "d", "e", "f">>

RECURSIVE ToHex(_)
\* '{:x}'.format(n), as a sequence of characters
ToHex(n) ==
    IF n < 16 THEN <<HexDigits[n + 1]>>
    ELSE ToHex(n \div 16) \o <<HexDigits[(n % 16) + 1]>>

DigitVal(c) == (CHOOSE d \in 1..16 : HexDigits[d] = c) - 1

RECURSIVE FromHexMutant(_)
\* int(s): the digits read in base 10
FromHexMutant(s) ==
    IF Len(s) = 0 THEN 0
    ELSE 10 * FromHexMutant(SubSeq(s, 1, Len(s) - 1)) + DigitVal(s[Len(s)])

RECURSIVE FromHex(_)
\* int(s, 16)
FromHex(s) ==
    IF Len(s) = 0 THEN 0
    ELSE 16 * FromHex(SubSeq(s, 1, Len(s) - 1)) + DigitVal(s[Len(s)])

\* tracer.inject(span.context, TEXT_MAP, carrier): the carrier's new items
Inject(ctx) == {<<"ot-tracer-traceid", ToHex(ctx[1])>>, <<"ot-tracer-spanid", ToHex(ctx[2])>>}

CarrierGet(carrier, k) == (CHOOSE p \in carrier : p[1] = k)[2]

\* tracer.extract(TEXT_MAP, carrier)
Extract(carrier) ==
    <<FromHex(CarrierGet(carrier, "ot-tracer-traceid")),
      FromHex(CarrierGet(carrier, "ot-tracer-spanid"))>>

\* A propagation payload slot: absent (None), or a carrier mapping
NoCtx == [has |-> FALSE, carrier |-> {}]
Ctx(c) == [has |-> TRUE, carrier |-> c]
CtxTruthy(c) == c.has /\ c.carrier # {}

(***************************************************************************)
(* Tag extraction.  A metadata mapping (task request, message body or      *)
(* message headers) is modelled by its allow-listed fields: the scalar     *)
(* fields (an absent key reads as None, as with .get) and the nested       *)
(* delivery_info mapping.                                                  *)
(***************************************************************************)
ScalarTags == {"countdown", "eta", "expires", "group", "hostname", "origin",
               "retries", "timelimit"}
SubTags == {"exchange", "priority", "redelivered", "routing_key", "queue"}

NoDeliveryInfo == [kind |-> "None", sub |-> [s \in SubTags |-> None]]
DeliveryInfo(sub) == [kind |-> "dict", sub |-> sub]
EmptyMeta == [scalars |-> [k \in ScalarTags |-> None], di |-> NoDeliveryInfo]

\* line 207: the allow-list, in iteration order
TagOrder == <<"countdown", "delivery_info", "eta", "expires", "group", "hostname",
              "origin", "retries", "timelimit">>
\* the sub-fields with queue first and exchange last
SubTagOrderMutant == <<"queue", "priority", "redelivered", "routing_key", "exchange">>
\* line 212: the delivery_info sub-fields, in iteration order
SubTagOrder == <<"exchange", "priority", "redelivered", "routing_key", "queue">>

\* `if val:`, which skips 0 as well
IsEmptyValMutant(v) == v \in {None, "", ListOfNones, PairOfNones, PyZero}

\* val not in (None, '', [None, None], (None, None))
IsEmptyVal(v) == v \in {None, "", ListOfNones, PairOfNones}

\* subval not in (None, '')
IsEmptySubVal(v) == v \in {None, ""}

COMPONENT == "component"
ERROR == "error"
MESSAGE_BUS_DESTINATION == "message_bus.destination"

\* lines 213-220: one sub-field of delivery_info
SetSubTag(tags, sub, subtag) ==
    LET subval == sub[subtag] IN
    IF IsEmptySubVal(subval) THEN tags
    ELSE LET t1 == SetTag(tags, "celery.delivery." \o subtag, subval) IN
         IF subtag \in {"exchange", "routing_key", "queue"}
         THEN SetTag(t1, MESSAGE_BUS_DESTINATION, subval)
         ELSE t1

RECURSIVE SubTagLoop(_, _, _, _)
SubTagLoop(tags, sub, order, j) ==
    IF j > Len(order) THEN tags
    ELSE SubTagLoop(SetSubTag(tags, sub, order[j]), sub, order, j + 1)

\* lines 223-226: the two renamed fields
TagName(tag) ==
    IF tag = "hostname" THEN "worker.hostname"
    ELSE IF tag = "origin" THEN "task.origin"
    ELSE tag

\* lines 209-227: one allow-listed field
SetOneTag(tags, meta, tag) ==
    IF tag = "delivery_info"
    THEN IF meta.di.kind = "None" THEN tags
         ELSE SubTagLoop(tags, meta.di.sub, SubTagOrder, 1)
    ELSE LET val == meta.scalars[tag] IN
         IF IsEmptyVal(val) THEN tags
         ELSE SetTag(tags, "celery." \o TagName(tag), val)

RECURSIVE TagLoop(_, _, _)
TagLoop(tags, meta, i) ==
    IF i > Len(TagOrder) THEN tags
    ELSE TagLoop(SetOneTag(tags, meta, TagOrder[i]), meta, i + 1)

\* CeleryTracing._set_span_tags(span, headers): the span's tags afterwards
_set_span_tags(tags, meta) == TagLoop(SetTag(tags, COMPONENT, "celery"), meta, 1)

(***************************************************************************)
(* Tracer operations on the state st = [spans, active, has_ct, ct_spans].  *)
(* Scope k is the scope that start_active_span made for span k.            *)
(***************************************************************************)
State == [spans |-> spans, active |-> active, has_ct |-> has_ct, ct_spans |-> ct_spans]

\* tracer.start_active_span(name, child_of, ignore_active_span, tags)
\* a tracer that parents on the active span whatever ignore_active_span says
ParentOfMutant(st, child_of, ignore_active_span) ==
    IF child_of # NoContext THEN child_of
    ELSE IF st.active # 0 THEN st.spans[st.active].context
    ELSE NoContext

\* the parent of a new span: child_of, else the active span unless ignored
ParentOf(st, child_of, ignore_active_span) ==
    IF child_of # NoContext THEN child_of
    ELSE IF ~ignore_active_span /\ st.active # 0 THEN st.spans[st.active].context
    ELSE NoContext

\* span n, started under parent: a root span opens a trace of its own
NewSpan(st, n, name, parent, tags) ==
    [name |-> name,
     context |-> <<IF parent = NoContext THEN NewTraceId(n) ELSE parent[1], NewSpanId(n)>>,
     parent |-> parent,
     finished |-> 0,
     to_restore |-> st.active,
     tags |-> tags,
     logs |-> << >>]

start_active_span(st, name, child_of, ignore_active_span, tags) ==
    [st EXCEPT !.spans = Append(st.spans,
                                NewSpan(st, Len(st.spans) + 1, name,
                                        ParentOf(st, child_of, ignore_active_span), tags)),
               !.active = Len(st.spans) + 1]

\* span.finish()
Finish(st, s) == [st EXCEPT !.spans[s].finished = @ + 1]

\* scope.close() of the thread-local scope manager
ScopeClose(st, s) ==
    IF st.active # s THEN st
    ELSE [Finish(st, s) EXCEPT !.active = st.spans[s].to_restore]

\* span.set_tag(key, value)
set_tag(st, s, k, v) == [st EXCEPT !.spans[s].tags = SetTag(@, k, v)]

\* span.log_kv(key_values)
log_kv(st, s, kv) == [st EXCEPT !.spans[s].logs = Append(@, kv)]

\* self._set_span_tags(span, mapping) applied to span s of st
ApplySpanTags(st, s, meta) == [st EXCEPT !.spans[s].tags = _set_span_tags(@, meta)]

\* self._span_tags, the static tags of an instance (default {})
span_tags(self) == NoTags

(***************************************************************************)
(* Messages and requests.                                                  *)
(***************************************************************************)
\* kwargs['headers']: not passed, or a mapping with an optional id and an
\* optional entry under context_headers
NoHeaders == [kind |-> "missing", id |-> None, ctx |-> NoCtx]
Headers(id, ctx) == [kind |-> "dict", id |-> id, ctx |-> ctx]

\* kwargs['body']: a mapping (task protocol 1) or the 3-tuple of protocol 2
DictBody(id) == [kind |-> "dict", id |-> id]
TupleBody == [kind |-> "tuple", id |-> None]

\* task.request.headers: None, or a mapping with an optional payload
NoneHeaders == [present |-> FALSE, ctx |-> NoCtx]
ReqHeaders(ctx) == [present |-> TRUE, ctx |-> ctx]

\* the allow-listed fields of the mappings the handlers hand to tag extraction
WithScalar(meta, k, v) == [meta EXCEPT !.scalars[k] = v]
PublishRequestMeta == WithScalar(EmptyMeta, "retries", PyZero)
RunRequestMeta ==
    [scalars |-> [k \in ScalarTags |->
                    IF k = "retries" THEN PyZero
                    ELSE IF k = "hostname" THEN "w1"
                    ELSE IF k = "timelimit" THEN ListOfNones
                    ELSE None],
     di |-> DeliveryInfo([s \in SubTags |->
                    IF s = "exchange" THEN ""
                    ELSE IF s = "routing_key" THEN "celery"
                    ELSE IF s = "priority" THEN PyZero
                    ELSE None])]
BodyMeta(body) ==
    IF body.kind = "tuple" THEN EmptyMeta      \* body[2], the embed mapping
    ELSE WithScalar(WithScalar(EmptyMeta, "retries", PyZero), "timelimit", PairOfNones)
HeadersMeta(headers) ==
    WithScalar(WithScalar(EmptyMeta, "origin", "gen1@host"), "timelimit", ListOfNones)

\* what a handler call returns: the state, the (mutable) headers, how the call
\* ended ("ok" or the exception raised) and whether it logged a warning
Ret(st, headers, out, warned) == [st |-> st, headers |-> headers, out |-> out, warned |-> warned]

(***************************************************************************)
(* CeleryTracing: the handlers.                                            *)
(***************************************************************************)

\* any item with an `app` attribute taken as local
_is_localMutant(self, item) == HasAppAttr(item)

\* CeleryTracing._is_local(item)
_is_local(self, item) ==
    LET app == IF HasAppAttr(item) THEN AppOf(item) ELSE None
    IN app = self

\* kwargs.get('headers', {}).get('id') or kwargs.get('body', {}).get('id')
\* (lines 69 and 98): a tuple body has no .get
ResolvePublishId(headers, body) ==
    LET h == IF headers.kind = "missing" THEN None ELSE headers.id IN
    IF Truthy(h) THEN [err |-> "ok", id |-> h]
    ELSE IF body.kind = "tuple" THEN [err |-> "AttributeError", id |-> None]
    ELSE [err |-> "ok", id |-> body.id]

PublishKey(task_id) == "publish:" \o Str(task_id)

\* lines 89-91 and 128-130: getattr(task, spans_attr)[key] = span
StoreSpan(st, task, key, s) ==
    [st EXCEPT !.has_ct = @ \cup {task}, !.ct_spans[task][key] = s]

\* spans.pop(task_id, None) / spans.get(task_id)
_get_spanMutant(st, task, task_id, remove) ==
    IF task \notin st.has_ct THEN [st |-> st, out |-> "ok", span |-> 0]
    ELSE [st |-> IF remove THEN [st EXCEPT !.ct_spans[task][task_id] = 0] ELSE st,
          out |-> "ok",
          span |-> st.ct_spans[task][task_id]]

\* CeleryTracing._get_span(task, task_id, remove): None (0) when the task has
\* no side table
_get_span(st, task, task_id, remove) ==
    IF task \notin st.has_ct THEN [st |-> st, out |-> "ok", span |-> 0]
    ELSE IF st.ct_spans[task][task_id] = 0 THEN [st |-> st, out |-> "KeyError", span |-> 0]
    ELSE [st |-> IF remove THEN [st EXCEPT !.ct_spans[task][task_id] = 0] ELSE st,
          out |-> "ok",
          span |-> st.ct_spans[task][task_id]]

\* lines 100-105 and 189-194: close the active scope if it holds the span,
\* else finish the span and warn
CloseOrFinish(st, headers, span) ==
    IF st.active = 0 THEN Ret(st, headers, "AttributeError", FALSE)   \* None.span
    ELSE IF st.active = span THEN Ret(ScopeClose(st, st.active), headers, "ok", FALSE)
    ELSE IF span = 0 THEN Ret(st, headers, "AttributeError", FALSE)   \* None.finish()
    ELSE Ret(Finish(st, span), headers, "ok", TRUE)

\* lines 72-91: the span is tagged, its context injected and the span stored
PrepublishStore(self, task, ev, st1, span, task_id) ==
    Ret(StoreSpan(
            IF ev.headers.kind = "missing"
            THEN ApplySpanTags(
                     ApplySpanTags(set_tag(st1, span, "celery.task.id", task_id),
                                   span, PublishRequestMeta),
                     span, BodyMeta(ev.body))
            ELSE ApplySpanTags(
                     ApplySpanTags(
                         ApplySpanTags(set_tag(st1, span, "celery.task.id", task_id),
                                       span, PublishRequestMeta),
                         span, BodyMeta(ev.body)),
                     span, HeadersMeta(ev.headers)),
            task, PublishKey(task_id), span),
        IF ev.headers.kind # "missing" /\ propagate[self]
        THEN [ev.headers EXCEPT !.ctx = Ctx({} \cup Inject(st1.spans[span].context))]
        ELSE ev.headers,
        "ok", FALSE)

\* lines 69-71: the task id, once the span is started
PrepublishStarted(self, task, ev, st1, rid) ==
    IF rid.err # "ok" THEN Ret(st1, ev.headers, rid.err, FALSE)
    ELSE IF rid.id = None THEN Ret(st1, ev.headers, "RuntimeError", FALSE)
    ELSE PrepublishStore(self, task, ev, st1, Len(st1.spans), rid.id)

\* CeleryTracing._prepublish(sender, headers, body)
_prepublish(self, st, ev) ==
    IF ~_is_local(self, TasksGet(self, ev.sender)) THEN Ret(st, ev.headers, "ok", FALSE)
    ELSE PrepublishStarted(self, TasksGet(self, ev.sender), ev,
                           start_active_span(st, "publish " \o NameOf(TasksGet(self, ev.sender)),
                                             NoContext, FALSE, span_tags(self)),
                           ResolvePublishId(ev.headers, ev.body))

\* lines 99-105: the span is retrieved and removed, then closed or finished
PostpublishGot(ev, got) ==
    IF got.out # "ok" THEN Ret(got.st, ev.headers, got.out, FALSE)
    ELSE CloseOrFinish(got.st, ev.headers, got.span)

\* line 98: the task id
PostpublishId(task, st, ev, rid) ==
    IF rid.err # "ok" THEN Ret(st, ev.headers, rid.err, FALSE)
    ELSE PostpublishGot(ev, _get_span(st, task, PublishKey(rid.id), TRUE))

\* CeleryTracing._postpublish(sender, headers, body)
_postpublish(self, st, ev) ==
    IF ~_is_local(self, TasksGet(self, ev.sender)) THEN Ret(st, ev.headers, "ok", FALSE)
    ELSE PostpublishId(TasksGet(self, ev.sender), st, ev,
                       ResolvePublishId(ev.headers, ev.body))

\* tracer.extract raises on a carrier without the tracer's keys
ValidCarrier(c) ==
    /\ \E p \in c : p[1] = "ot-tracer-traceid"
    /\ \E p \in c : p[1] = "ot-tracer-spanid"

\* lines 120-130: the task id, once the span is started
StartSpanStarted(task, ev, st1, span, task_id) ==
    IF task_id = None THEN Ret(st1, ev.headers, "RuntimeError", FALSE)
    ELSE Ret(StoreSpan(ApplySpanTags(set_tag(st1, span, "celery.task.id", task_id),
                                     span, RunRequestMeta),
                       task, task_id, span),
             ev.headers, "ok", FALSE)

\* lines 114-118: the parent extracted from the payload, and the span started
StartSpanContext(self, task, st, ev, context) ==
    IF CtxTruthy(context) /\ ~ValidCarrier(context.carrier)
    THEN Ret(st, ev.headers, "SpanContextCorruptedException", FALSE)
    ELSE StartSpanStarted(task, ev,
                          start_active_span(st, NameOf(task),
                                            IF CtxTruthy(context)
                                            THEN Extract(context.carrier) ELSE NoContext,
                                            TRUE, span_tags(self)),
                          Len(st.spans) + 1,
                          IF ev.has_task_id THEN ev.task_id ELSE ev.request.correlation_id)

\* CeleryTracing._start_span(task, task_id): the task_prerun handler
\* line 113: getattr(task.request, context_headers, None)
\*           or task.request.headers.get(context_headers)
_start_span(self, st, ev) ==
    IF ~_is_local(self, ev.sender) THEN Ret(st, ev.headers, "ok", FALSE)
    ELSE IF ~propagate[self] THEN StartSpanContext(self, ev.sender, st, ev, NoCtx)
    ELSE IF CtxTruthy(ev.request.ctx_attr)
    THEN StartSpanContext(self, ev.sender, st, ev, ev.request.ctx_attr)
    ELSE IF ~ev.request.headers.present
    THEN Ret(st, ev.headers, "AttributeError", FALSE)          \* None.get
    ELSE StartSpanContext(self, ev.sender, st, ev, ev.request.headers.ctx)

\* CeleryTracing._finish_span(sender, task_id): the task_postrun handler
_finish_span(self, st, ev) ==
    IF ~_is_local(self, ev.sender) THEN Ret(st, ev.headers, "ok", FALSE)
    ELSE PostpublishGot(ev, _get_span(st, ev.sender, ev.task_id, TRUE))

(***************************************************************************)
(* Exceptions, error info and tracebacks of the failure and retry signals. *)
(***************************************************************************)
NoExc == [isnone |-> TRUE, cls |-> "", msg |-> ""]
Exc(cls, msg) == [isnone |-> FALSE, cls |-> cls, msg |-> msg]
\* a traceback: None, a raw traceback object, or already formatted text
NoTb == [kind |-> "None", frames |-> << >>, text |-> ""]
RawTb(frames) == [kind |-> "raw", frames |-> frames, text |-> ""]
StrTb(text) == [kind |-> "str", frames |-> << >>, text |-> text]
NoEinfo == [isnone |-> TRUE, exception |-> NoExc, traceback |-> NoTb]
Einfo(exc, tb) == [isnone |-> FALSE, exception |-> exc, traceback |-> tb]

RECURSIVE SumLogs(_, _)
SumLogs(ss, i) == IF i > Len(ss) THEN 0 ELSE Len(ss[i].logs) + SumLogs(ss, i + 1)

RECURSIVE JoinFrames(_, _)
\* text_type('').join(traceback.format_tb(tb)) of a raw traceback
JoinFrames(frames, i) ==
    IF i > Len(frames) THEN ""
    ELSE ("  File " \o frames[i] \o "; ") \o JoinFrames(frames, i + 1)

Repr(exc) == exc.cls \o "(" \o exc.msg \o ")"

\* {'event': 'error', 'message': str(exc), 'error.object': exc,
\*  'error.kind': exc.__class__.__name__, 'stack': ...}; None: key not set
LoggedError(exc, stack) ==
    [event |-> ERROR,
     message |-> IF exc.isnone THEN None ELSE exc.msg,
     object |-> IF exc.isnone THEN None ELSE Repr(exc),
     kind |-> IF exc.isnone THEN None ELSE exc.cls,
     stack |-> stack]

\* lines 144-157: the structured error event
TagErrorLog(ev, st1, span, exc, tb) ==
    IF exc.isnone \/ tb.kind = "None"
    THEN Ret(log_kv(st1, span, LoggedError(exc, None)), ev.headers, "ok", FALSE)
    ELSE IF tb.kind # "raw"
    THEN Ret(st1, ev.headers, "AttributeError", FALSE)   \* traceback.format_tb of text
    ELSE Ret(log_kv(st1, span, LoggedError(exc, JoinFrames(tb.frames, 1))),
             ev.headers, "ok", FALSE)

\* lines 137-153: the error tag, the exception and the traceback
TagErrorGot(ev, got) ==
    IF got.out # "ok" THEN Ret(got.st, ev.headers, got.out, FALSE)
    ELSE IF got.span = 0 THEN Ret(got.st, ev.headers, "AttributeError", FALSE)  \* None.set_tag
    ELSE TagErrorLog(ev, set_tag(got.st, got.span, ERROR, PyTrue), got.span,
                     IF ev.exception.isnone /\ ~ev.einfo.isnone
                     THEN ev.einfo.exception ELSE ev.exception,
                     IF ev.traceback.kind = "None" /\ ~ev.einfo.isnone
                     THEN ev.einfo.traceback ELSE ev.traceback)

\* a failure handler that pops the span, as the postrun handler does
_tag_errorMutant(self, st, ev) ==
    IF ~_is_local(self, ev.sender) THEN Ret(st, ev.headers, "ok", FALSE)
    ELSE TagErrorGot(ev, _get_span(st, ev.sender, ev.task_id, TRUE))

\* CeleryTracing._tag_error(sender, task_id, exception, einfo, traceback)
_tag_error(self, st, ev) ==
    IF ~_is_local(self, ev.sender) THEN Ret(st, ev.headers, "ok", FALSE)
    ELSE TagErrorGot(ev, _get_span(st, ev.sender, ev.task_id, FALSE))

\* lines 167-181: the structured error event of a retry
TagRetryLog(ev, st2, span, einfo) ==
    IF einfo.isnone THEN Ret(st2, ev.headers, "ok", FALSE)
    ELSE IF einfo.traceback.kind = "None"
    THEN Ret(log_kv(st2, span, LoggedError(einfo.exception, None)), ev.headers, "ok", FALSE)
    ELSE IF einfo.traceback.kind = "list"
    THEN Ret(st2, ev.headers, "AttributeError", FALSE)   \* traceback.format_tb of a list
    ELSE Ret(log_kv(st2, span,
                    LoggedError(einfo.exception,
                                IF einfo.traceback.kind = "str"
                                THEN einfo.traceback.text ELSE "<traceback>")),
             ev.headers, "ok", FALSE)

\* lines 164-165: the retry tags
TagRetryGot(ev, got) ==
    IF got.out # "ok" THEN Ret(got.st, ev.headers, got.out, FALSE)
    ELSE IF got.span = 0 THEN Ret(got.st, ev.headers, "AttributeError", FALSE)  \* None.set_tag
    ELSE TagRetryLog(ev,
                     set_tag(set_tag(got.st, got.span, "celery.retry", PyTrue),
                             got.span, "celery.retry.reason", Str(ev.reason)),
                     got.span, ev.einfo)

\* CeleryTracing._tag_retry(sender, request, reason, einfo); ev.task_id is
\* kwargs.get('request', {}).get('id')
_tag_retry(self, st, ev) ==
    IF ~_is_local(self, ev.sender) THEN Ret(st, ev.headers, "ok", FALSE)
    ELSE TagRetryGot(ev, _get_span(st, ev.sender, ev.task_id, FALSE))

(***************************************************************************)
(* The signals.  connect_traced_handlers registers the handlers on the     *)
(* process-wide signals; a signal is sent to every registered receiver in  *)
(* registration order.                                                     *)
(***************************************************************************)
PublishSignals == {"before_task_publish", "after_task_publish"}
RunSignals == {"task_prerun", "task_failure", "task_retry", "task_postrun"}

Signals == PublishSignals \cup RunSignals

\* no handler connected to any signal
NoReceivers == [sig \in Signals |-> << >>]

\* the instance's handler is among the receivers of the signal
Registered(recv, self, sig) == \E k \in DOMAIN recv[sig] : recv[sig][k] = self

\* Signal.connect(handler, weak=False): a receiver already connected is not
\* connected again
SignalConnect(seq, self) ==
    IF \E k \in DOMAIN seq : seq[k] = self THEN seq ELSE Append(seq, self)

\* Signal.disconnect(handler)
SignalDisconnect(seq, self) == SelectSeq(seq, LAMBDA x : x # self)

\* connects the handlers of all six signals, whatever propagate is
connect_traced_handlersMutant(recv, self) ==
    [sig \in Signals |-> SignalConnect(recv[sig], self)]

\* CeleryTracing.connect_traced_handlers(): the receivers afterwards
connect_traced_handlers(recv, self) ==
    [sig \in Signals |->
        IF sig \in PublishSignals /\ ~propagate[self] THEN recv[sig]
        ELSE SignalConnect(recv[sig], self)]

\* CeleryTracing.disconnect_traced_handlers(): the receivers afterwards
disconnect_traced_handlers(recv, self) ==
    [sig \in Signals |->
        IF sig \in PublishSignals /\ ~propagate[self] THEN recv[sig]
        ELSE SignalDisconnect(recv[sig], self)]

Handler(sig, self, st, ev) ==
    CASE sig = "before_task_publish" -> _prepublish(self, st, ev)
      [] sig = "after_task_publish" -> _postpublish(self, st, ev)
      [] sig = "task_prerun" -> _start_span(self, st, ev)
      [] sig = "task_failure" -> _tag_error(self, st, ev)
      [] sig = "task_retry" -> _tag_retry(self, st, ev)
      [] sig = "task_postrun" -> _finish_span(self, st, ev)

Request(cid, attr, hdrs) == [correlation_id |-> cid, ctx_attr |-> attr, headers |-> hdrs]

NoEvent ==
    [sig |-> "none", sender |-> NoTask, headers |-> NoHeaders, body |-> DictBody(None),
     has_task_id |-> FALSE, task_id |-> None, request |-> Request(None, NoCtx, NoneHeaders),
     exception |-> NoExc, einfo |-> NoEinfo, traceback |-> NoTb, reason |-> None]

\* what one receiver did: the state and the headers before and after its call
Call(self, st, ev, r) ==
    [inst |-> self, pre |-> st, post |-> r.st, out |-> r.out, warned |-> r.warned,
     h_pre |-> ev.headers, h_post |-> r.headers]

RECURSIVE Deliver(_, _, _, _)
RECURSIVE Delivered(_, _, _, _, _)
\* Signal.send (Celery 4): the receivers run one after the other on the sending
\* thread; a receiver's exception is logged and the dispatch goes on
Deliver(ev, st, k, calls) ==
    IF k > Len(receivers[ev.sig])
    THEN [st |-> st, headers |-> ev.headers, calls |-> calls]
    ELSE Delivered(ev, st, k, calls, Handler(ev.sig, receivers[ev.sig][k], st, ev))

Delivered(ev, st, k, calls, r) ==
    Deliver([ev EXCEPT !.headers = r.headers], r.st, k + 1,
            Append(calls, Call(receivers[ev.sig][k], st, ev, r)))

\* nothing is being dispatched
NoLast == [ev |-> NoEvent, calls |-> << >>, headers |-> NoHeaders]

Bounded(st) ==
    /\ Len(st.spans) <= MaxSpans
    /\ SumLogs(st.spans, 1) <= MaxLogs

\* the dispatch of ev, d, becomes the state
Commit(ev, d) ==
    /\ Bounded(d.st)
    /\ spans' = d.st.spans
    /\ active' = d.st.active
    /\ has_ct' = d.st.has_ct
    /\ ct_spans' = d.st.ct_spans
    /\ wire' = IF ev.sig = "before_task_publish" /\ d.headers.ctx.has
               THEN wire \cup {d.headers.ctx.carrier} ELSE wire
    /\ last' = [ev |-> ev, calls |-> d.calls, headers |-> d.headers]
    /\ UNCHANGED <<propagate, receivers, tag_meta, tag_span>>

Send(ev) == Commit(ev, Deliver(ev, State, 1, << >>))

(***************************************************************************)
(* The inputs the host sends.                                              *)
(***************************************************************************)
StaleCarrier == {<<"stale", <<"1">>>>}

\* <<headers, body>> of a published message: task protocol 1 (the id in the
\* body), protocol 2 (the id in the headers, a tuple body), and messages without
\* an id
PublishMessages ==
    {<<NoHeaders, DictBody("a")>>, <<Headers(None, NoCtx), DictBody("a")>>,
     <<Headers("a", NoCtx), TupleBody>>, <<Headers("a", Ctx(StaleCarrier)), TupleBody>>,
     <<NoHeaders, DictBody(None)>>, <<Headers(None, NoCtx), DictBody(None)>>,
     <<NoHeaders, TupleBody>>, <<Headers(None, NoCtx), TupleBody>>}

\* <<sender, message>>: a registered name with every message, an unregistered
\* name with one
Publishes ==
    {<<"add", m>> : m \in PublishMessages}
    \cup {<<"nope", <<Headers("a", NoCtx), TupleBody>>>>}

PublishEvent(sig, p) ==
    [NoEvent EXCEPT !.sig = sig, !.sender = p[1], !.headers = p[2][1], !.body = p[2][2]]

\* the payload slots of a task request on the worker: <<direct attribute,
\* request.headers>>
RequestPayloads ==
    {<<NoCtx, NoneHeaders>>, <<NoCtx, ReqHeaders(NoCtx)>>}
    \cup {<<Ctx(c), NoneHeaders>> : c \in wire}
    \cup {<<NoCtx, ReqHeaders(Ctx(c))>> : c \in wire}
    \cup {<<Ctx({}), ReqHeaders(Ctx(c))>> : c \in wire}
    \cup {<<Ctx(c), ReqHeaders(Ctx(StaleCarrier))>> : c \in wire}
    \cup {<<Ctx(c[1]), ReqHeaders(Ctx(c[2]))>> : c \in {p \in wire \X wire : p[1] # p[2]}}

\* <<task_id passed, task_id, request.correlation_id>>
PrerunIds ==
    {<<FALSE, None, None>>, <<FALSE, None, "a">>, <<TRUE, "a", "a">>,
     <<TRUE, "publish:a", "publish:a">>, <<TRUE, None, "a">>}

\* <<task, ids, payload slots>>: a task with every id and with every payload,
\* the other senders with one input
Preruns ==
    {<<t, ids, <<NoCtx, ReqHeaders(NoCtx)>>>> : t \in Senders \cap Tasks, ids \in PrerunIds}
    \cup {<<t, <<TRUE, "a", "a">>, pl>> : t \in Senders \cap Tasks, pl \in RequestPayloads}
    \cup {<<t, <<TRUE, "a", "a">>, <<NoCtx, ReqHeaders(NoCtx)>>>> : t \in Senders \ Tasks}

PrerunEvent(p) ==
    [NoEvent EXCEPT !.sig = "task_prerun", !.sender = p[1], !.has_task_id = p[2][1],
                    !.task_id = p[2][2], !.request = Request(p[2][3], p[3][1], p[3][2])]

\* <<task, task_id>> of the run-side signals
RunTargets ==
    {<<t, id>> : t \in Senders \cap Tasks, id \in TaskIds \cup {None}}
    \cup {<<t, "a">> : t \in Senders \ Tasks}

Boom == Exc("ValueError", "boom")
\* <<exception, einfo, traceback>>
Failures ==
    {<<Boom, NoEinfo, RawTb(<<"tasks.py">>)>>,
     <<NoExc, Einfo(Boom, RawTb(<<"tasks.py">>)), NoTb>>,
     <<Boom, NoEinfo, StrTb("Traceback: boom")>>,
     <<NoExc, Einfo(Boom, StrTb("Traceback: boom")), NoTb>>}

FailureEvent(rt, f) ==
    [NoEvent EXCEPT !.sig = "task_failure", !.sender = rt[1], !.has_task_id = TRUE,
                    !.task_id = rt[2], !.exception = f[1], !.einfo = f[2],
                    !.traceback = f[3]]

\* <<reason, einfo>>
Retries == {<<Repr(Boom), Einfo(Boom, StrTb("Traceback: boom"))>>}

RetryEvent(rt, r) ==
    [NoEvent EXCEPT !.sig = "task_retry", !.sender = rt[1], !.task_id = rt[2],
                    !.reason = r[1], !.einfo = r[2]]

PostrunEvent(rt) ==
    [NoEvent EXCEPT !.sig = "task_postrun", !.sender = rt[1], !.has_task_id = TRUE,
                    !.task_id = rt[2]]

\* the host is not inside a dispatch
Idle == last = NoLast

(***************************************************************************)
(* Actions.                                                                *)
(***************************************************************************)
before_task_publish ==
    /\ Idle
    /\ \E p \in Publishes : Send(PublishEvent("before_task_publish", p))

after_task_publish ==
    /\ Idle
    /\ \E p \in Publishes : Send(PublishEvent("after_task_publish", p))

task_prerun ==
    /\ Idle
    /\ \E p \in Preruns : Send(PrerunEvent(p))

task_failure ==
    /\ Idle
    /\ \E rt \in RunTargets, f \in Failures : Send(FailureEvent(rt, f))

task_retry ==
    /\ Idle
    /\ \E rt \in RunTargets, r \in Retries : Send(RetryEvent(rt, r))

task_postrun ==
    /\ Idle
    /\ \E rt \in RunTargets : Send(PostrunEvent(rt))

\* another party closes the scope that is active
other_party_closes ==
    /\ Idle
    /\ active # 0
    /\ spans' = ScopeClose(State, active).spans
    /\ active' = spans[active].to_restore
    /\ last' = [ev |-> [NoEvent EXCEPT !.sig = "other_close"], calls |-> << >>,
                headers |-> NoHeaders]
    /\ UNCHANGED <<propagate, receivers, has_ct, ct_spans, wire, tag_meta, tag_span>>

\* Signal.send returns to the host, which drops the responses
send_returns ==
    /\ last # NoLast
    /\ last' = NoLast
    /\ UNCHANGED <<propagate, receivers, spans, active, has_ct, ct_spans, wire,
                   tag_meta, tag_span>>

\* instance.connect_traced_handlers(), called by the integrator
connect ==
    /\ Idle
    /\ \E self \in Instances :
        /\ receivers' = connect_traced_handlers(receivers, self)
        /\ last' = [NoLast EXCEPT !.ev.sig = "connect", !.ev.sender = self]
    /\ UNCHANGED <<propagate, spans, active, has_ct, ct_spans, wire, tag_meta, tag_span>>

\* instance.disconnect_traced_handlers(), called by the integrator
disconnect ==
    /\ Idle
    /\ \E self \in Instances :
        /\ receivers' = disconnect_traced_handlers(receivers, self)
        /\ last' = [NoLast EXCEPT !.ev.sig = "disconnect", !.ev.sender = self]
    /\ UNCHANGED <<propagate, spans, active, has_ct, ct_spans, wire, tag_meta, tag_span>>

Keys == TaskIds \cup {None} \cup {PublishKey(id) : id \in TaskIds \cup {None}}

NoTagSpan == [done |-> FALSE, tags |-> NoTags]

\* after construction of both applications: handlers connected (line 31),
\* no span started, no task has a side table
Init ==
    /\ propagate \in {p \in [Instances -> BOOLEAN] : p["A"] \/ p["B"]}
    /\ receivers = connect_traced_handlers(connect_traced_handlers(NoReceivers, "A"), "B")
    /\ spans = << >>
    /\ active = 0
    /\ has_ct = {}
    /\ ct_spans = [t \in Tasks |-> [k \in Keys |-> 0]]
    /\ wire = {}
    /\ last = NoLast
    /\ tag_meta = EmptyMeta
    /\ tag_span = NoTagSpan

HostNext ==
    \/ before_task_publish
    \/ after_task_publish
    \/ task_prerun
    \/ task_failure
    \/ task_retry
    \/ task_postrun
    \/ send_returns

Next ==
    \/ HostNext
    \/ other_party_closes

\* the host's signals and other users of the tracer
Spec == Init /\ [][Next]_vars

\* the host's signals only
SpecHost == Init /\ [][HostNext]_vars

RegNext ==
    \/ connect
    \/ disconnect
    \/ before_task_publish
    \/ after_task_publish
    \/ task_prerun
    \/ task_postrun
    \/ send_returns

RunNext ==
    \/ task_prerun
    \/ task_failure
    \/ task_retry
    \/ task_postrun
    \/ send_returns

\* a worker: the run-side signals only
SpecRun == Init /\ [][RunNext]_vars

\* the integrator connecting and disconnecting the instances while the host
\* publishes and runs tasks
SpecReg == Init /\ [][RegNext]_vars

(***************************************************************************)
(* Tag extraction on its own: _set_span_tags applied to a fresh span, for  *)
(* every combination of absent (None), empty and named delivery_info       *)
(* sub-fields, and for a mapping without delivery_info.                    *)
(***************************************************************************)
SubValues(subtag) ==
    CASE subtag = "queue" -> {None, "", "q1"}
      [] subtag = "routing_key" -> {None, "", "r1"}
      [] subtag = "exchange" -> {None, "", "e1"}
      [] subtag = "priority" -> {None, PyZero}
      [] subtag = "redelivered" -> {None, PyTrue}

\* the values of a scalar field: absent (None), the sentinels, and named values
ScalarValues(tag) ==
    CASE tag = "retries" -> {None, "", PyZero, "3"}
      [] tag = "timelimit" -> {None, "", PairOfNones, ListOfNones, "[30, 60]"}
      [] tag = "hostname" -> {None, "", "w1"}
      [] tag = "origin" -> {None, "", "gen1@host"}
      [] OTHER -> {None, "", "v"}

ScalarMetas ==
    {[countdown |-> a, eta |-> b, expires |-> c, group |-> d, hostname |-> e,
      origin |-> f, retries |-> g, timelimit |-> h] :
        a \in ScalarValues("countdown"), b \in ScalarValues("eta"),
        c \in ScalarValues("expires"), d \in ScalarValues("group"),
        e \in ScalarValues("hostname"), f \in ScalarValues("origin"),
        g \in ScalarValues("retries"), h \in ScalarValues("timelimit")}

DeliveryInfos ==
    {DeliveryInfo(sub) :
        sub \in {f \in [SubTags -> {None, "", "q1", "r1", "e1", PyZero, PyTrue}] :
                    \A t \in SubTags : f[t] \in SubValues(t)}}

\* every delivery_info with no scalar field and with the request's scalar
\* fields, and every combination of scalar fields without delivery_info
TagMetas ==
    {EmptyMeta}
    \cup {[scalars |-> sc, di |-> d] :
             sc \in {EmptyMeta.scalars, RunRequestMeta.scalars}, d \in DeliveryInfos}
    \cup {[scalars |-> sc, di |-> NoDeliveryInfo] : sc \in ScalarMetas}

InitTags ==
    /\ propagate = [i \in Instances |-> TRUE]
    /\ receivers = NoReceivers
    /\ spans = << >>
    /\ active = 0
    /\ has_ct = {}
    /\ ct_spans = [t \in Tasks |-> [k \in Keys |-> 0]]
    /\ wire = {}
    /\ last = NoLast
    /\ tag_meta \in TagMetas
    /\ tag_span = NoTagSpan

\* _set_span_tags(span, tag_meta) on a span without tags
ExtractTags ==
    /\ ~tag_span.done
    /\ tag_span' = [done |-> TRUE, tags |-> _set_span_tags(NoTags, tag_meta)]
    /\ UNCHANGED <<propagate, receivers, spans, active, has_ct, ct_spans, wire, last,
                   tag_meta>>

SpecTags == InitTags /\ [][ExtractTags]_vars

(***************************************************************************)
(* Properties.  They read `last`: the signal dispatched last and, for each *)
(* receiver called, the state and the headers before and after its call.   *)
(***************************************************************************)
\* lines 62, 94, 108, 133, 160, 184: the task a handler resolves from the sender
ResolvedTask(self, ev) ==
    IF ev.sig \in PublishSignals THEN TasksGet(self, ev.sender) ELSE ev.sender

\* the task is unresolved, has no owning application, or is owned by another one
NotLocal(self, task) ==
    task = NoTask \/ ~HasAppAttr(task) \/ AppOf(task) # self

IsLocalCall(c) == ~NotLocal(c.inst, ResolvedTask(c.inst, last.ev))

\* the side-table key a span-retrieving handler looks up (lines 99, 136, 163, 188)
LookupKey(c) ==
    IF last.ev.sig = "after_task_publish"
    THEN PublishKey(ResolvePublishId(c.h_pre, last.ev.body).id)
    ELSE last.ev.task_id

\* the handler gets as far as the lookup
ReachesLookup(c) ==
    last.ev.sig = "after_task_publish" => ResolvePublishId(c.h_pre, last.ev.body).err = "ok"

HasEntry(st, task, key) == task \in st.has_ct /\ st.ct_spans[task][key] # 0

\* the spans of st named name and tagged with the task-instance id
TaggedSpans(st, name, id) ==
    {k \in DOMAIN st.spans :
        /\ st.spans[k].name = name
        /\ "celery.task.id" \in DOMAIN st.spans[k].tags
        /\ st.spans[k].tags["celery.task.id"] = id}

\* those of them that are unfinished
OpenSpans(st, name, id) ==
    {k \in TaggedSpans(st, name, id) : st.spans[k].finished = 0}

\* one start event for id is waiting for its end event: the last span started
\* for id is unfinished, and it is the only one
PairPending(st, name, id) ==
    \E k \in OpenSpans(st, name, id) :
        /\ OpenSpans(st, name, id) = {k}
        /\ \A j \in TaggedSpans(st, name, id) : j <= k

\* the call started a span or finished one
Instrumented(c) ==
    \/ Len(c.post.spans) > Len(c.pre.spans)
    \/ \E k \in DOMAIN c.pre.spans : c.post.spans[k].finished > c.pre.spans[k].finished

\* C1: a handler (any of the six) whose resolved task is not local to its
\* instance returns without error and changes nothing: no span started, tagged,
\* logged or finished, no side table created or changed, the headers and the
\* active scope as before, no warning.
C1_NonLocalIgnored ==
    \A i \in DOMAIN last.calls :
        NotLocal(last.calls[i].inst, ResolvedTask(last.calls[i].inst, last.ev)) =>
            /\ last.calls[i].out = "ok"
            /\ last.calls[i].post = last.calls[i].pre
            /\ last.calls[i].h_post = last.calls[i].h_pre
            /\ ~last.calls[i].warned

\* C1's case: task_failure for a running task of A reaches B while the span is
\* stored and active
C1_Witness ==
    /\ last.ev.sig = "task_failure"
    /\ \E i \in DOMAIN last.calls :
        /\ last.calls[i].inst = "B"
        /\ NotLocal("B", last.ev.sender)
        /\ HasEntry(last.calls[i].pre, last.ev.sender, last.ev.task_id)
        /\ last.calls[i].pre.active # 0
        /\ last.calls[i].post = last.calls[i].pre

\* C2: of the instances connected to the bus, at most one starts or finishes a
\* span for one event, also when both register a task under the same name.
C2_AtMostOneInstance ==
    Cardinality({i \in DOMAIN last.calls : Instrumented(last.calls[i])}) <= 1

\* the call closed the span of the pair: the one open span named name and tagged
\* id is finished once, no other span is finished, and the entry under key is gone
PairClosed(c, task, name, id, key) ==
    /\ c.out = "ok"
    /\ \A k \in DOMAIN c.pre.spans :
          c.post.spans[k].finished =
              IF k \in OpenSpans(c.pre, name, id) THEN 1 ELSE c.pre.spans[k].finished
    /\ c.post.ct_spans[task][key] = 0

\* the call started exactly one span and stored it under key
PairOpened(c, task, key) ==
    /\ Len(c.post.spans) = Len(c.pre.spans) + 1
    /\ c.post.spans[Len(c.post.spans)].finished = 0
    /\ c.post.ct_spans[task][key] = Len(c.post.spans)

\* C3: prepublish of a local task for an id creates exactly one span, stored
\* under "publish:<id>"; the postpublish for that id that follows finishes that
\* span exactly once and removes the entry, whatever events of other
\* task-instance ids come in between.
C3_PublishPair ==
    \A i \in DOMAIN last.calls :
        LET c == last.calls[i]
            task == ResolvedTask(c.inst, last.ev)
            rid == ResolvePublishId(c.h_pre, last.ev.body)
        IN (/\ last.ev.sig \in PublishSignals
            /\ IsLocalCall(c)
            /\ rid.err = "ok"
            /\ rid.id # None) =>
               /\ last.ev.sig = "before_task_publish" =>
                      PairOpened(c, task, PublishKey(rid.id))
               /\ (/\ last.ev.sig = "after_task_publish"
                   /\ PairPending(c.pre, "publish " \o NameOf(task), rid.id)) =>
                      PairClosed(c, task, "publish " \o NameOf(task), rid.id,
                                 PublishKey(rid.id))

\* C4: prerun of a local task for an id creates exactly one run span, stored
\* under "<id>"; the postrun for that id that follows finishes that span exactly
\* once and removes the entry, whatever failure and retry events and whatever
\* events of other task-instance ids come in between.
C4_RunPair ==
    \A i \in DOMAIN last.calls :
        LET c == last.calls[i]
            task == ResolvedTask(c.inst, last.ev)
        IN /\ (/\ last.ev.sig = "task_prerun"
               /\ IsLocalCall(c)
               /\ c.out = "ok") =>
                  \E id \in TaskIds : PairOpened(c, task, id)
           /\ (/\ last.ev.sig = "task_postrun"
               /\ IsLocalCall(c)
               /\ last.ev.task_id # None
               /\ PairPending(c.pre, NameOf(task), last.ev.task_id)) =>
                  PairClosed(c, task, NameOf(task), last.ev.task_id, last.ev.task_id)

\* the payload a request carries: the direct attribute, or the entry under the
\* header key when the direct attribute holds none
Carried(request) ==
    IF CtxTruthy(request.ctx_attr) THEN request.ctx_attr
    ELSE IF request.headers.present THEN request.headers.ctx
    ELSE NoCtx

\* C5: with propagate on, a prepublish of a local task that is given headers
\* leaves under the reserved key exactly the injected context of the publish span
\* it started (nothing of what was there before); and a prerun whose request
\* carries a payload starts a run span whose parent is the context of the publish
\* span that payload was injected from.
C5_PropagationRoundTrip ==
    \A i \in DOMAIN last.calls :
        LET c == last.calls[i] IN
        /\ (/\ last.ev.sig = "before_task_publish"
            /\ IsLocalCall(c)
            /\ propagate[c.inst]
            /\ c.h_pre.kind = "dict"
            /\ c.out = "ok") =>
               /\ Len(c.post.spans) = Len(c.pre.spans) + 1
               /\ c.h_post.ctx = Ctx(Inject(c.post.spans[Len(c.post.spans)].context))
               /\ Extract(c.h_post.ctx.carrier) = c.post.spans[Len(c.post.spans)].context
        /\ (/\ last.ev.sig = "task_prerun"
            /\ IsLocalCall(c)
            /\ propagate[c.inst]
            /\ CtxTruthy(Carried(last.ev.request))) =>
               \E k \in DOMAIN c.pre.spans :
                  /\ c.pre.spans[k].name = "publish add"
                  /\ Inject(c.pre.spans[k].context) = Carried(last.ev.request).carrier
                  /\ Len(c.post.spans) = Len(c.pre.spans) + 1
                  /\ c.post.spans[Len(c.post.spans)].parent = c.pre.spans[k].context

\* C5's case: a message published with a stale payload in its headers was given
\* the publish span's context, and a prerun that finds the payload under the
\* header key has started a run span under that publish span
C5_Witness ==
    /\ last.ev.sig = "task_prerun"
    /\ ~CtxTruthy(last.ev.request.ctx_attr)
    /\ CtxTruthy(last.ev.request.headers.ctx)
    /\ Len(spans) = 2
    /\ spans[1].name = "publish add"
    /\ spans[2].name = "add"
    /\ spans[2].parent = spans[1].context
    /\ spans[2].context[1] = spans[1].context[1]
    /\ \E i \in DOMAIN last.calls : last.calls[i].out = "ok" /\ propagate[last.calls[i].inst]

\* C6: prepublish of a local task raises RuntimeError whenever neither the
\* headers nor the body holds an id: headers absent or without id, body a
\* mapping without id or the 3-tuple of protocol 2.
C6_NoIdIsRuntimeError ==
    \A i \in DOMAIN last.calls :
        LET c == last.calls[i] IN
        (/\ last.ev.sig = "before_task_publish"
         /\ IsLocalCall(c)
         /\ c.h_pre.id = None
         /\ last.ev.body.id = None) =>
            c.out = "RuntimeError"

\* C7: a postrun for an id whose entry is no longer in the task's side table, as
\* after a prerun and a first postrun for that id, fails with KeyError: it
\* finishes no span and leaves the side table, and everything else, unchanged.
C7_SecondPostrunKeyError ==
    \A i \in DOMAIN last.calls :
        LET c == last.calls[i] IN
        (/\ last.ev.sig = "task_postrun"
         /\ IsLocalCall(c)
         /\ last.ev.sender \in c.pre.has_ct
         /\ c.pre.ct_spans[last.ev.sender][last.ev.task_id] = 0) =>
            /\ c.out = "KeyError"
            /\ c.post = c.pre
            /\ ~c.warned

\* C7's case: the run span of the id was started by a prerun and finished by a
\* first postrun, and the postrun dispatched last was answered with KeyError
C7_Witness ==
    /\ last.ev.sig = "task_postrun"
    /\ \E i \in DOMAIN last.calls :
        /\ IsLocalCall(last.calls[i])
        /\ last.calls[i].out = "KeyError"
        /\ TaggedSpans(last.calls[i].pre, NameOf(last.ev.sender), last.ev.task_id) # {}
        /\ OpenSpans(last.calls[i].pre, NameOf(last.ev.sender), last.ev.task_id) = {}
        /\ \A k \in DOMAIN spans : spans[k].finished = 1

\* C8: postpublish, failure, retry and postrun of a local task fail with
\* KeyError whenever the id is not in the side table, also when the task has no
\* side table yet.
C8_MissingKeyIsKeyError ==
    \A i \in DOMAIN last.calls :
        LET c == last.calls[i] IN
        (/\ last.ev.sig \in {"after_task_publish", "task_failure", "task_retry",
                             "task_postrun"}
         /\ IsLocalCall(c)
         /\ ReachesLookup(c)
         /\ ~HasEntry(c.pre, ResolvedTask(c.inst, last.ev), LookupKey(c))) =>
            c.out = "KeyError"

\* C9: postpublish and postrun, once the span is retrieved and removed, close
\* the active scope when it holds the span (the span is finished and the scope
\* active before it is active again); in every other state of the scope stack,
\* no active scope included, they finish the span, warn, leave the scope stack
\* alone and return normally.
C9_CloseOrFinishReturns ==
    \A i \in DOMAIN last.calls :
        LET c == last.calls[i]
            task == ResolvedTask(c.inst, last.ev)
        IN (/\ last.ev.sig \in {"after_task_publish", "task_postrun"}
            /\ IsLocalCall(c)
            /\ ReachesLookup(c)
            /\ HasEntry(c.pre, task, LookupKey(c))) =>
               LET s == c.pre.ct_spans[task][LookupKey(c)] IN
               /\ c.out = "ok"
               /\ c.post.ct_spans[task][LookupKey(c)] = 0
               /\ c.post.spans[s].finished = c.pre.spans[s].finished + 1
               /\ IF c.pre.active = s
                  THEN c.post.active = c.pre.spans[s].to_restore /\ ~c.warned
                  ELSE c.post.active = c.pre.active /\ c.warned

\* has(x): delivery_info holds a non-empty value under x
HasSub(meta, x) == meta.di.kind = "dict" /\ meta.di.sub[x] \notin {None, ""}

\* C10: after tag extraction the destination tag is the queue if delivery_info
\* has one, else the routing key if it has one, else the exchange if it has one,
\* and is not set when it has none of the three.
C10_DestinationPriority ==
    tag_span.done =>
        IF HasSub(tag_meta, "queue")
        THEN /\ MESSAGE_BUS_DESTINATION \in DOMAIN tag_span.tags
             /\ tag_span.tags[MESSAGE_BUS_DESTINATION] = tag_meta.di.sub["queue"]
        ELSE IF HasSub(tag_meta, "routing_key")
        THEN /\ MESSAGE_BUS_DESTINATION \in DOMAIN tag_span.tags
             /\ tag_span.tags[MESSAGE_BUS_DESTINATION] = tag_meta.di.sub["routing_key"]
        ELSE IF HasSub(tag_meta, "exchange")
        THEN /\ MESSAGE_BUS_DESTINATION \in DOMAIN tag_span.tags
             /\ tag_span.tags[MESSAGE_BUS_DESTINATION] = tag_meta.di.sub["exchange"]
        ELSE MESSAGE_BUS_DESTINATION \notin DOMAIN tag_span.tags

\* C10's case: queue q1, routing key r1 and exchange e1 gave destination q1
C10_Witness ==
    /\ tag_span.done
    /\ tag_meta.di.kind = "dict"
    /\ tag_meta.di.sub["queue"] = "q1"
    /\ tag_meta.di.sub["routing_key"] = "r1"
    /\ tag_meta.di.sub["exchange"] = "e1"
    /\ tag_span.tags[MESSAGE_BUS_DESTINATION] = "q1"

\* the tag name of an allow-listed scalar field
TagOf(field) ==
    IF field = "hostname" THEN "celery.worker.hostname"
    ELSE IF field = "origin" THEN "celery.task.origin"
    ELSE "celery." \o field

FailureExc(ev) == IF ev.exception.isnone THEN ev.einfo.exception ELSE ev.exception
FailureTb(ev) == IF ev.traceback.kind = "None" THEN ev.einfo.traceback ELSE ev.traceback

\* C12: on-failure with an exception e and a traceback t, raw or already
\* formatted, marks the running span as an error and logs the event built from
\* (e, t), the same whether e and t are passed directly or carried by the
\* error-info object.
C12_EinfoSameAsDirect ==
    \A i \in DOMAIN last.calls :
        LET c == last.calls[i] IN
        (/\ last.ev.sig = "task_failure"
         /\ IsLocalCall(c)
         /\ HasEntry(c.pre, last.ev.sender, last.ev.task_id)
         /\ c.pre.spans[c.pre.ct_spans[last.ev.sender][last.ev.task_id]].name
               = NameOf(last.ev.sender)
         /\ ~FailureExc(last.ev).isnone
         /\ FailureTb(last.ev).kind # "None") =>
            LET s == c.pre.ct_spans[last.ev.sender][last.ev.task_id] IN
            /\ c.out = "ok"
            /\ ERROR \in DOMAIN c.post.spans[s].tags
            /\ c.post.spans[s].tags[ERROR] = PyTrue
            /\ c.post.spans[s].logs =
                  Append(c.pre.spans[s].logs,
                         LoggedError(FailureExc(last.ev),
                                     \* the stack text: formatted text as it is,
                                     \* a raw traceback formatted
                                     IF FailureTb(last.ev).kind = "str"
                                     THEN FailureTb(last.ev).text
                                     ELSE JoinFrames(FailureTb(last.ev).frames, 1)))

\* the signals the instance's handlers are connected to
RegisteredSignals(self) == {sig \in Signals : Registered(receivers, self, sig)}

\* all six handlers with propagate, the four run-side handlers without
ExpectedSignals(self) == IF propagate[self] THEN Signals ELSE RunSignals

\* C13: an instance's handlers are registered for all six signals when
\* propagate is true and for exactly the four run-side signals when it is
\* false, after construction and after connect; after disconnect none is
\* registered.  So an instance with propagate false is never called for a
\* publish signal: it starts no publish span and writes nothing into headers.
C13_Registration ==
    /\ \A self \in Instances : RegisteredSignals(self) \in {{}, ExpectedSignals(self)}
    /\ last.ev.sig = "connect" =>
          RegisteredSignals(last.ev.sender) = ExpectedSignals(last.ev.sender)
    /\ last.ev.sig = "disconnect" => RegisteredSignals(last.ev.sender) = {}
    /\ \A i \in DOMAIN last.calls :
          ~propagate[last.calls[i].inst] =>
              /\ last.ev.sig \notin PublishSignals
              /\ last.calls[i].h_post = last.calls[i].h_pre
              /\ \A k \in DOMAIN last.calls[i].post.spans :
                    k > Len(last.calls[i].pre.spans) =>
                        last.calls[i].post.spans[k].name # "publish add"

\* C13's case: A was disconnected and connected again, so B, with propagate
\* false, precedes it on the run-side signals and is missing from the publish
\* signals, and a publish dispatched now was handled by A alone
C13_Witness ==
    /\ ~propagate["B"]
    /\ receivers["task_prerun"] = <<"B", "A">>
    /\ receivers["before_task_publish"] = <<"A">>
    /\ RegisteredSignals("B") = RunSignals
    /\ last.ev.sig = "before_task_publish"
    /\ Len(last.calls) = 1
    /\ last.calls[1].inst = "A"
    /\ Len(spans) = 1

\* the request's propagation payload: the direct attribute when it is non-empty,
\* else the header key
PayloadOf(request) ==
    IF CtxTruthy(request.ctx_attr) THEN request.ctx_attr
    ELSE IF request.headers.present THEN request.headers.ctx
    ELSE NoCtx

\* the call started a span: the last span of its resulting state
StartedSpan(c) == Len(c.post.spans) = Len(c.pre.spans) + 1
NewSpanOf(c) == c.post.spans[Len(c.post.spans)]

\* C14: the span started at prerun has the context extracted from the request's
\* payload as parent when propagate is true and a non-empty payload is present,
\* and no parent otherwise, whatever span is active at that moment.
C14_PrerunParent ==
    \A i \in DOMAIN last.calls :
        (last.ev.sig = "task_prerun" /\ StartedSpan(last.calls[i])) =>
            NewSpanOf(last.calls[i]).parent =
                IF propagate[last.calls[i].inst] /\ CtxTruthy(PayloadOf(last.ev.request))
                THEN Extract(PayloadOf(last.ev.request).carrier)
                ELSE NoContext

\* C14's case: a span was active in the worker when prerun started a span, and
\* the new span has no parent
C14_Witness ==
    \E i \in DOMAIN last.calls :
        /\ last.ev.sig = "task_prerun"
        /\ StartedSpan(last.calls[i])
        /\ last.calls[i].pre.active # 0
        /\ last.calls[i].pre.spans[last.calls[i].pre.active].finished = 0
        /\ NewSpanOf(last.calls[i]).parent = NoContext

\* the task-instance id a prerun event designates: the override when one is
\* supplied, else the request's correlation id
PrerunId(ev) ==
    IF ev.has_task_id /\ ev.task_id # None THEN ev.task_id ELSE ev.request.correlation_id

\* C15: at prerun the task-instance id is the task_id override when one is
\* supplied, else the request's correlation id; the handler raises when the id
\* is still absent, and otherwise stores the span it started under that id (so a
\* task_id key holding None falls back to the correlation id).
C15_PrerunIdResolution ==
    \A i \in DOMAIN last.calls :
        (last.ev.sig = "task_prerun" /\ StartedSpan(last.calls[i])) =>
            IF PrerunId(last.ev) = None
            THEN last.calls[i].out = "RuntimeError"
            ELSE /\ last.calls[i].out = "ok"
                 /\ HasEntry(last.calls[i].post, last.ev.sender, PrerunId(last.ev))
                 /\ last.calls[i].post.ct_spans[last.ev.sender][PrerunId(last.ev)]
                        = Len(last.calls[i].post.spans)

\* the side-table entries of st that reference an unfinished span
LiveEntries(st) ==
    {tk \in st.has_ct \X Keys :
        /\ st.ct_spans[tk[1]][tk[2]] # 0
        /\ st.spans[st.ct_spans[tk[1]][tk[2]]].finished = 0}

StartSignals == {"before_task_publish", "task_prerun"}

\* C16: there is at most one started, unfinished span per side-table key, that
\* is, every unfinished span that was stored (it carries the task-instance id
\* tag) is the one its key references; and a start event (prepublish or prerun)
\* never overwrites a live entry: the span an entry referenced before the event
\* is still referenced by it afterwards, or is finished.
C16_NoOverwrite ==
    /\ \A k \in DOMAIN spans :
          (spans[k].finished = 0 /\ "celery.task.id" \in DOMAIN spans[k].tags) =>
              \E tk \in LiveEntries(State) : ct_spans[tk[1]][tk[2]] = k
    /\ \A i \in DOMAIN last.calls :
          last.ev.sig \in StartSignals =>
              \A tk \in LiveEntries(last.calls[i].pre) :
                  \/ last.calls[i].post.ct_spans[tk[1]][tk[2]]
                         = last.calls[i].pre.ct_spans[tk[1]][tk[2]]
                  \/ last.calls[i].post.spans[last.calls[i].pre.ct_spans[tk[1]][tk[2]]].finished > 0

\* the side-table entries of st that hold a span of the given track: the publish
\* track's spans are named "publish <task name>", the run track's "<task name>"
TrackEntries(st, publish) ==
    {tk \in st.has_ct \X Keys :
        /\ st.ct_spans[tk[1]][tk[2]] # 0
        /\ st.spans[st.ct_spans[tk[1]][tk[2]]].name =
               IF publish THEN "publish " \o NameOf(tk[1]) ELSE NameOf(tk[1])}

\* the call left the entry and the span it references as they were
Untouched(c, tk) ==
    /\ c.post.ct_spans[tk[1]][tk[2]] = c.pre.ct_spans[tk[1]][tk[2]]
    /\ c.post.spans[c.pre.ct_spans[tk[1]][tk[2]]] = c.pre.spans[c.pre.ct_spans[tk[1]][tk[2]]]

\* C17: the publish track and the run track are independent for every pair of
\* task-instance ids: a publish-side event never overwrites, retrieves or removes
\* an entry of the run track, and a run-side event never touches an entry of the
\* publish track.
C17_TracksIndependent ==
    \A i \in DOMAIN last.calls :
        /\ last.ev.sig \in PublishSignals =>
              \A tk \in TrackEntries(last.calls[i].pre, FALSE) : Untouched(last.calls[i], tk)
        /\ last.ev.sig \in RunSignals =>
              \A tk \in TrackEntries(last.calls[i].pre, TRUE) : Untouched(last.calls[i], tk)

\* the span the side table of the event's task holds for the event's id,
\* before the call
HeldSpan(c) == c.pre.ct_spans[last.ev.sender][last.ev.task_id]

HasTag(span, k, v) == k \in DOMAIN span.tags /\ span.tags[k] = v

\* C18: on-failure and on-retry retrieve the span without removing it: after
\* either handler the side table is as before and no span has been finished, so
\* the span stays available to postrun; on-failure has set the error tag to
\* true, and on-retry the retry flag and the stringified reason, on that span.
C18_FailureRetryKeepSpan ==
    \A i \in DOMAIN last.calls :
        (/\ last.ev.sig \in {"task_failure", "task_retry"}
         /\ IsLocalCall(last.calls[i])
         /\ HasEntry(last.calls[i].pre, last.ev.sender, last.ev.task_id)) =>
            /\ last.calls[i].post.ct_spans = last.calls[i].pre.ct_spans
            /\ last.calls[i].post.has_ct = last.calls[i].pre.has_ct
            /\ last.calls[i].post.active = last.calls[i].pre.active
            /\ Len(last.calls[i].post.spans) = Len(last.calls[i].pre.spans)
            /\ \A k \in DOMAIN last.calls[i].pre.spans :
                  last.calls[i].post.spans[k].finished = last.calls[i].pre.spans[k].finished
            /\ last.ev.sig = "task_failure" =>
                  HasTag(last.calls[i].post.spans[HeldSpan(last.calls[i])], ERROR, PyTrue)
            /\ last.ev.sig = "task_retry" =>
                  /\ HasTag(last.calls[i].post.spans[HeldSpan(last.calls[i])],
                            "celery.retry", PyTrue)
                  /\ HasTag(last.calls[i].post.spans[HeldSpan(last.calls[i])],
                            "celery.retry.reason", Str(last.ev.reason))

\* C18's case: a retry after a failure on the same running span, which is still
\* unfinished and still in the side table
C18_Witness ==
    \E i \in DOMAIN last.calls :
        /\ last.ev.sig = "task_retry"
        /\ IsLocalCall(last.calls[i])
        /\ HasEntry(last.calls[i].pre, last.ev.sender, last.ev.task_id)
        /\ last.calls[i].pre.spans[HeldSpan(last.calls[i])].name = NameOf(last.ev.sender)
        /\ HasTag(last.calls[i].pre.spans[HeldSpan(last.calls[i])], ERROR, PyTrue)
        /\ last.calls[i].out = "ok"
        /\ HasTag(spans[HeldSpan(last.calls[i])], "celery.retry", PyTrue)
        /\ spans[HeldSpan(last.calls[i])].finished = 0
        /\ ct_spans[last.ev.sender][last.ev.task_id] = HeldSpan(last.calls[i])

\* C19: a start event (prepublish or prerun) that raises because the
\* task-instance id cannot be resolved leaves the state as it was: no span
\* remains started and unfinished, the active scope, the headers and the side
\* table are unchanged.
C19_FailedStartLeavesState ==
    \A i \in DOMAIN last.calls :
        (last.ev.sig \in StartSignals /\ last.calls[i].out = "RuntimeError") =>
            /\ \A k \in DOMAIN last.calls[i].post.spans :
                  k > Len(last.calls[i].pre.spans) => last.calls[i].post.spans[k].finished > 0
            /\ last.calls[i].post.active = last.calls[i].pre.active
            /\ last.calls[i].h_post = last.calls[i].h_pre
            /\ last.calls[i].post.ct_spans = last.calls[i].pre.ct_spans
            /\ last.calls[i].post.has_ct = last.calls[i].pre.has_ct

\* C20: for any interleaving of the lifecycles of task instances on one
\* execution context, no scope holding an already finished span is ever the
\* active scope, and once every start has been matched by its end (every span
\* is finished and no side table holds an entry) the active scope is the one
\* that was active before the first start (none) and no scope of the
\* instrumentation remains.
C20_ScopeRestored ==
    /\ active # 0 => spans[active].finished = 0
    /\ (/\ \A k \in DOMAIN spans : spans[k].finished > 0
        /\ \A t \in has_ct, key \in Keys : ct_spans[t][key] = 0) => active = 0

====
